---- MODULE Spec2Model ----
(***************************************************************************)
(* Model of music_organizer.py: the AudioOrganizer file-processing         *)
(* pipeline (scan, validate, duplicate check, clip, identify, resolve,     *)
(* move, count, save manifest) over an explicit file system.               *)
(***************************************************************************)
EXTENDS Integers, Sequences, FiniteSets, TLC

\* Python None / JSON null where a name is expected, and an absent key.
Null == <<"<null>">>
Missing == <<"<missing>">>
\* Python None where a record is expected.
None == [none |-> TRUE]
\* What the file system holds at a path where there is no file.
Absent == <<-1>>

(* ---------------------------------------------------------------- bounds *)
\* Largest number of audio files present when a run starts.
MaxFiles == 3
\* Largest retries argument tried for identify_song on its own.
MaxRetries == 4
MaxTrackMs == 1600

(* ------------------------------------------------------ program constants *)
\* validate_audio_file: shortest accepted track, in ms.
MinValidMs == 10000
\* identify_song: default of the retries parameter.
DefaultRetries == 3
\* sanitize_filename: names are cut to this many characters.
MaxNameLen == 100

(* ------------------------------------------------------------- contents  *)
\* File contents are byte strings.  First byte 0: a header the decoder
\* rejects.  <<1>> decodes to a track that is too short.
Content == { <<0, 1>>, <<1>>, <<1, 1>>, <<1, 2>>, <<1, 1, 1>> }

\* os.path.getsize
GetSize(c) == Len(c)

\* get_file_hash: the digest is folded over the bytes in order; it is
\* injective on byte strings over 0..2 (no collisions are modelled).
RECURSIVE HashUpdate(_, _)
HashUpdate(h, bytes) ==
    IF bytes = <<>> THEN h
    ELSE HashUpdate(h * 4 + Head(bytes) + 1, Tail(bytes))

GetFileHash(c) == HashUpdate(0, c)

\* AudioSegment.from_file followed by len(): -1 stands for a decode error;
\* a decodable file holds 6000 ms of audio per byte (constant bitrate).
DecodedMs(c) == IF c[1] = 0 THEN -1 ELSE Len(c) * 6000

\* Validation without the check of the length.
ValidateDecodable(c) == c # Absent /\ DecodedMs(c) >= 0

\* validate_audio_file on the content found at a path (Absent: no file).
ValidateAudioFile(c) ==
    IF c = Absent THEN FALSE
    ELSE IF DecodedMs(c) < 0 THEN FALSE
    ELSE IF DecodedMs(c) < MinValidMs THEN FALSE
    ELSE TRUE

(* ---------------------------------------------------------------- names  *)
\* A name is a sequence of tokens: a token is one special character or a
\* run of ordinary characters.

InvalidChars == {"<", ">", ":", "\"", "/", "\\", "|", "?", "*"}

\* name.replace(char, '_') for every invalid character.
ReplaceInvalid(name) ==
    [k \in 1..Len(name) |-> IF name[k] \in InvalidChars THEN "_" ELSE name[k]]

\* Index of the first occurrence of ch in name at or after position k, or 0.
RECURSIVE FirstIndex(_, _, _)
FirstIndex(name, ch, k) ==
    IF k > Len(name) THEN 0
    ELSE IF name[k] = ch THEN k
    ELSE FirstIndex(name, ch, k + 1)

\* re.sub(open [^close]* close, '', name): every leftmost group is removed.
RECURSIVE StripGroups(_, _, _)
StripGroups(name, open, close) ==
    IF name = <<>> THEN <<>>
    ELSE IF Head(name) = open /\ FirstIndex(name, close, 2) # 0
         THEN StripGroups(SubSeq(name, FirstIndex(name, close, 2) + 1, Len(name)),
                          open, close)
         ELSE <<Head(name)>> \o StripGroups(Tail(name), open, close)

\* name.strip('. ')
RECURSIVE StripEnds(_)
StripEnds(name) ==
    IF name = <<>> THEN <<>>
    ELSE IF Head(name) \in {".", " "} THEN StripEnds(Tail(name))
    ELSE IF name[Len(name)] \in {".", " "}
         THEN StripEnds(SubSeq(name, 1, Len(name) - 1))
    ELSE name

Truncate(name) ==
    IF Len(name) > MaxNameLen THEN SubSeq(name, 1, MaxNameLen) ELSE name

\* sanitize_filename
SanitizeFilename(name) ==
    LET cleaned == Truncate(StripEnds(StripGroups(
                       StripGroups(ReplaceInvalid(name), "(", ")"), "[", "]")))
    IN  IF cleaned = <<>> THEN <<"Unknown">> ELSE cleaned

(* ---------------------------------------------------------------- paths  *)
\* A path is a directory (a sequence of names) plus a file name and suffix.
MkPath(dir, stem, ext) == [dir |-> dir, stem |-> stem, ext |-> ext]

SupportedFormats == {".mp3", ".wav", ".flac", ".m4a", ".aac", ".ogg", ".wma"}

InDir == << <<"in">> >>
OutDir == << <<"lib">> >>

\* self.output_folder
output_folder == OutDir

\* The file paths of the modelled file system.
FilePaths ==
    { MkPath(InDir, <<"p">>, ".mp3"),
      MkPath(InDir, <<"q">>, ".mp3"),
      MkPath(OutDir \o << <<"A">> >>, <<"s">>, ".mp3"),
      MkPath(OutDir \o << <<"A">>, <<"L">> >>, <<"t">>, ".mp3") }

IsPrefix(a, b) == Len(a) <= Len(b) /\ SubSeq(b, 1, Len(a)) = a

\* A directory with all its parents (mkdir(parents=True)).
WithParents(dir) == { SubSeq(dir, 1, k) : k \in 1..Len(dir) }

(* ----------------------------------------------------------- song infos  *)
\* The result payloads the recognition service may return.  A field is a
\* name, Missing (key absent) or Null (JSON null).
SongInfo(artist, title, apple, spotify, album) ==
    [artist |-> artist, title |-> title, apple_album |-> apple,
     spotify_album |-> spotify, album |-> album]

SongInfos ==
    { SongInfo(<<"A">>, <<"s">>, Missing, Missing, Missing),
      SongInfo(<<"A">>, <<"s", " ", "(", "x", ")">>, Missing, Missing, Missing),
      SongInfo(<<"A">>, <<"t">>, Missing, <<"L">>, Missing),
      SongInfo(Null, <<"s">>, Missing, Missing, Missing) }

\* dict.get(key, default)
GetOr(v, default) == IF v = Missing THEN default ELSE v

Truthy(v) == v # Missing /\ v # Null /\ v # <<>>

\* create_folder_structure: the album chosen from the payload, or Null.
AlbumOf(info) ==
    IF Truthy(info.apple_album) THEN info.apple_album
    ELSE IF Truthy(info.spotify_album) THEN info.spotify_album
    ELSE IF Truthy(info.album) THEN info.album
    ELSE Null

\* create_folder_structure raises when a name to sanitize is not a string.
FolderStructureRaises(info) ==
    \/ GetOr(info.artist, <<"Unknown Artist">>) = Null
    \/ GetOr(info.title, <<"Unknown Title">>) = Null

\* create_folder_structure: the folder the file goes to.
TargetFolder(info) ==
    LET artist == SanitizeFilename(GetOr(info.artist, <<"Unknown Artist">>))
        album  == AlbumOf(info)
    IN  IF album # Null /\ StripEnds(album) # <<>>
        THEN output_folder \o <<artist, SanitizeFilename(album)>>
        ELSE output_folder \o <<artist>>

\* create_folder_structure: the path returned.
TargetFile(info, original_file) ==
    MkPath(TargetFolder(info),
           SanitizeFilename(GetOr(info.title, <<"Unknown Title">>)),
           original_file.ext)

(* ------------------------------------------------------------- variables *)
VARIABLES
    dry_run,          \* self.dry_run
    input_folder,     \* self.input_folder
    fs,               \* file system: path -> content, or Absent
    fs0,              \* history: the file system when the run started
    dirs,             \* file system: the directories that exist
    tmp,              \* file system: the temporary clip files that exist
    pc,               \* position in organize_library / process_file
    audio_files,      \* organize_library: the scanned list
    idx,              \* organize_library: number of files taken from the list
    stats,            \* organize_library: ProcessingStats
    processed_files,  \* self.processed_files
    failed_files,     \* self.failed_files
    file_hashes,      \* self.file_hashes: digest -> path
    clip_path,        \* process_file: clip_path (0: None)
    song_info,        \* process_file: song_info
    target_path,      \* process_file: target_path
    ret,              \* process_file: how the call ended
    manifest,         \* organization_results.json under the output root
    outcomes,         \* history: terminal pipeline state of each file
    move_log,         \* history: the move_file call of the current file
    id_pc,            \* identify_song: position
    id_retries,       \* identify_song: retries
    id_attempt,       \* identify_song: attempt
    id_requests,      \* history: requests posted by this call
    id_sleeps,        \* history: time.sleep arguments of this call
    id_last,          \* history: how the latest attempt ended
    id_ret,           \* identify_song: value returned
    clip_pc,          \* create_random_clip: position
    total_duration,   \* create_random_clip: len(audio), in ms
    duration,         \* create_random_clip: the duration argument, in s
    clip_start,       \* create_random_clip: start of the window, in ms
    clip_end,         \* create_random_clip: end of the window, in ms
    clip              \* create_random_clip: len(clip), in ms

clipVars == <<clip_pc, total_duration, duration, clip_start, clip_end, clip>>
runVars == <<clipVars, dry_run, input_folder, fs, fs0, dirs, tmp, pc, audio_files, idx, stats,
             processed_files, failed_files, file_hashes, clip_path, song_info, target_path,
             ret, manifest, outcomes, move_log>>
idVars == <<id_pc, id_retries, id_attempt, id_requests, id_sleeps, id_last, id_ret>>
vars == <<runVars, idVars>>

\* ProcessingStats(total=n)
ProcessingStats(n) ==
    [total |-> n, success |-> 0, failed |-> 0, skipped |-> 0, duplicates |-> 0]

NoPath == MkPath(<<>>, <<>>, "")

\* move_log before any move_file call.
NoMove ==
    [called |-> FALSE, source |-> NoPath, target |-> NoPath,
     source_before |-> Absent, target_before |-> Absent, fault |-> "none",
     result |-> FALSE]

Existing(f) == {p \in FilePaths : f[p] # Absent}

\* The directories holding the files of f.
DirsOf(f) == UNION {WithParents(p.dir) : p \in Existing(f)}

IdIdle ==
    /\ id_pc = "idle" /\ id_retries = 0 /\ id_attempt = 0 /\ id_requests = 0
    /\ id_sleeps = <<>> /\ id_last = "none" /\ id_ret = None

\* create_random_clip is not being followed step by step.
ClipIdle ==
    /\ clip_pc = "idle" /\ total_duration = 0 /\ duration = 0
    /\ clip_start = 0 /\ clip_end = 0 /\ clip = 0

\* AudioOrganizer.__init__ has run: the output root exists unless dry_run.
Init ==
    /\ dry_run \in BOOLEAN
    /\ input_folder \in {InDir, OutDir}
    /\ fs \in {f \in [FilePaths -> Content \cup {Absent}] :
                 /\ Cardinality(Existing(f)) <= MaxFiles
                 /\ input_folder = OutDir =>
                        \A p \in Existing(f) : IsPrefix(OutDir, p.dir)}
    /\ fs0 = fs
    /\ \E out_exists \in BOOLEAN :
         dirs = DirsOf(fs) \cup WithParents(input_folder)
                  \cup (IF out_exists \/ ~dry_run
                        THEN WithParents(output_folder) ELSE {})
    /\ tmp = {}
    /\ pc = "start"
    /\ audio_files = <<>>
    /\ idx = 0
    /\ stats = ProcessingStats(0)
    /\ processed_files = <<>>
    /\ failed_files = <<>>
    /\ file_hashes = <<>>
    /\ clip_path = 0
    /\ song_info = None
    /\ target_path = NoPath
    /\ ret = "none"
    /\ manifest = None
    /\ outcomes = <<>>
    /\ move_log = NoMove
    /\ IdIdle
    /\ ClipIdle

(* ---------------------------------------------------- organize_library   *)
\* The orders in which rglob may yield the files of a set.
Orders(S) ==
    {q \in [1..Cardinality(S) -> S] : \A a, b \in DOMAIN q : a # b => q[a] # q[b]}

\* get_audio_files: the files rglob finds under the input folder.
Scanned(f) ==
    {p \in Existing(f) : IsPrefix(input_folder, p.dir) /\ p.ext \in SupportedFormats}

\* organize_library, lines 424-425.
Scan ==
    /\ pc = "start"
    /\ \E order \in Orders(Scanned(fs)) : audio_files' = order
    /\ stats' = ProcessingStats(Len(audio_files'))
    /\ pc' = "loop"
    /\ UNCHANGED <<clipVars, dry_run, input_folder, fs0, fs, dirs, tmp, idx, processed_files,
                   failed_files, file_hashes, clip_path, song_info, target_path, ret,
                   manifest, outcomes, move_log, idVars>>

file_path == audio_files[idx]

\* The for statement takes the next file and process_file is entered.
NextFile ==
    /\ pc = "loop"
    /\ idx < Len(audio_files)
    /\ idx' = idx + 1
    /\ pc' = "validate"
    /\ UNCHANGED <<clipVars, dry_run, input_folder, fs0, fs, dirs, tmp, audio_files, stats,
                   processed_files, failed_files, file_hashes, clip_path,
                   song_info, target_path, ret, manifest, outcomes, move_log,
                   idVars>>

\* process_file has ended with result r and terminal state o.
Exit(r, o) ==
    /\ pc' = "returned"
    /\ ret' = r
    /\ outcomes' = Append(outcomes, o)

\* process_file, lines 341-343.
Validate ==
    /\ pc = "validate"
    /\ IF ValidateAudioFile(fs[file_path])
       THEN /\ pc' = "hash"
            /\ UNCHANGED <<failed_files, ret, outcomes>>
       ELSE /\ failed_files' = Append(failed_files, file_path)
            /\ Exit("False", "Failed")
    /\ UNCHANGED <<clipVars, dry_run, input_folder, fs0, fs, dirs, tmp, audio_files, idx, stats,
                   processed_files, file_hashes, clip_path, song_info, target_path,
                   manifest, move_log, idVars>>

\* The faults a file-system call of process_file or move_file may raise:
\* "hash" reading a file for its digest, "remove" removing a file, "move"
\* moving a file; "none": no call raises.

\* A detected duplicate reported as a failure.
DuplicateResultFalse == "False"

\* process_file, line 351: what a detected duplicate returns.
DuplicateResult == "True"

\* The duplicate removed in simulate-only mode too.
DuplicateRemovalAlways(f, path) == [f EXCEPT ![path] = Absent]

\* process_file, lines 349-350: the duplicate is removed unless dry_run.
DuplicateRemoval(f, path) ==
    IF dry_run THEN f ELSE [f EXCEPT ![path] = Absent]

\* process_file, lines 346-353.
HashCheck ==
    /\ pc = "hash"
    /\ \E fault \in {"none", "hash", "remove"} :
         LET file_hash == GetFileHash(fs[file_path]) IN
         IF fault = "hash"
         THEN /\ Exit("raise", "Failed")
              /\ UNCHANGED <<fs, file_hashes>>
         ELSE IF file_hash \in DOMAIN file_hashes
         THEN IF ~dry_run /\ fault = "remove"
              THEN /\ Exit("raise", "Failed")
                   /\ UNCHANGED <<fs, file_hashes>>
              ELSE /\ fs' = DuplicateRemoval(fs, file_path)
                   /\ Exit(DuplicateResult, "DuplicateRemoved")
                   /\ UNCHANGED file_hashes
         ELSE /\ file_hashes' = file_hashes @@ (file_hash :> file_path)
              /\ pc' = "clip"
              /\ UNCHANGED <<fs, ret, outcomes>>
    /\ UNCHANGED <<clipVars, dry_run, input_folder, fs0, dirs, tmp, audio_files, idx, stats,
                   processed_files, failed_files, clip_path, song_info, target_path,
                   manifest, move_log, idVars>>

\* How create_random_clip may end: the clip is exported, decoding the file
\* raises, or exporting to the temporary file raises.
ClipOutcomes == {"ok", "decode_error", "export_error"}

\* create_random_clip: the temporary files after the call; the file made
\* by NamedTemporaryFile(delete=False) is named after the file's index.
TmpAfterClip(t, name, outcome) ==
    IF outcome = "decode_error" THEN t ELSE t \cup {name}

\* process_file, lines 356-359.
CreateClip ==
    /\ pc = "clip"
    /\ \E outcome \in ClipOutcomes :
         /\ tmp' = TmpAfterClip(tmp, idx, outcome)
         /\ IF outcome = "ok"
            THEN /\ clip_path' = idx
                 /\ pc' = "identify"
                 /\ UNCHANGED <<failed_files, ret, outcomes>>
            ELSE /\ failed_files' = Append(failed_files, file_path)
                 /\ Exit("False", "Failed")
                 /\ UNCHANGED clip_path
    /\ UNCHANGED <<clipVars, dry_run, input_folder, fs0, fs, dirs, audio_files, idx, stats,
                   processed_files, file_hashes, song_info, target_path,
                   manifest, move_log, idVars>>

(* ------------------------------------------------------- identify_song   *)
\* How one attempt may end: a status code of the service (200 with or
\* without a result), a timeout, a failure to open the clip, or any other
\* exception of the request.
Responses ==
    {"200_result", "200_noresult", "901", "900", "700", "500", "400", "300",
     "other_status", "timeout", "open_error", "error"}

\* The loop going on after a status the code gives no branch of its own.
GoesOnOtherStatus(r) == r \in {"901", "timeout", "other_status"}

\* The attempts after which the loop goes on (continue, or the end of the
\* except block): lines 180-184 and 204-208.
GoesOn(r) == r \in {"901", "timeout"}

\* The attempts after which time.sleep(2 ** attempt) is called.
Sleeps(r, attempt, retries) ==
    \/ r = "901"
    \/ r = "timeout" /\ attempt < retries - 1

\* The attempts that end in an exception, and those of them an except
\* clause of identify_song catches (lines 204 and 209).
Exceptions == {"timeout", "open_error", "error"}

\* Only the timeout caught.
HandledTimeoutOnly(r) == r = "timeout"

Handled(r) == r = "timeout" \/ r \in Exceptions

\* The backoff computed from the number of the attempt counted from one.
Pow2FromOne(n) == 2 ^ (n + 1)

\* 2 ** attempt
RECURSIVE Pow2(_)
Pow2(n) == IF n = 0 THEN 1 ELSE 2 * Pow2(n - 1)

\* identify_song is called with the default retries (line 363).
CallIdentify ==
    /\ pc = "identify"
    /\ id_pc = "idle"
    /\ id_pc' = "loop"
    /\ id_retries' = DefaultRetries
    /\ UNCHANGED <<id_attempt, id_requests, id_sleeps, id_last, id_ret>>
    /\ UNCHANGED runVars

\* One pass of the for loop of identify_song, lines 162-211.
IdentifyAttempt ==
    /\ id_pc = "loop"
    /\ id_attempt < id_retries
    /\ \E r \in Responses, info \in SongInfos \cup {None} :
         /\ (r = "200_result") = (info # None)
         /\ id_last' = r
         /\ id_requests' = IF r = "open_error" THEN id_requests ELSE id_requests + 1
         /\ id_sleeps' = IF Sleeps(r, id_attempt, id_retries)
                         THEN Append(id_sleeps, Pow2(id_attempt)) ELSE id_sleeps
         /\ IF r \in Exceptions /\ ~Handled(r)
            THEN /\ id_pc' = "raised"
                 /\ UNCHANGED <<id_attempt, id_ret>>
            ELSE IF GoesOn(r)
            THEN /\ id_attempt' = id_attempt + 1
                 /\ UNCHANGED <<id_pc, id_ret>>
            ELSE /\ id_pc' = "returned"
                 /\ id_ret' = IF r = "200_result" THEN info ELSE None
                 /\ UNCHANGED id_attempt
    /\ UNCHANGED <<id_retries, runVars>>

\* The for loop is exhausted: line 213.
IdentifyExhausted ==
    /\ id_pc = "loop"
    /\ id_attempt >= id_retries
    /\ id_pc' = "returned"
    /\ id_ret' = None
    /\ UNCHANGED <<id_retries, id_attempt, id_requests, id_sleeps, id_last, runVars>>

\* The call frame of identify_song is gone.
IdReset ==
    /\ id_pc' = "idle" /\ id_retries' = 0 /\ id_attempt' = 0 /\ id_requests' = 0
    /\ id_sleeps' = <<>> /\ id_last' = "none" /\ id_ret' = None

(* ---------------------------------------------------------- move_file    *)
\* The source kept on a tie of sizes as well.
SourceWinsOnTie(f, source, target) == GetSize(f[source]) >= GetSize(f[target])

\* move_file, line 311: of two different files the larger one is kept.
\* move_file(source, target) on file system f, where the file-system call
\* named by fault raises: the file system left behind and the value
\* returned.  shutil.move is a rename: it moves the file or changes nothing.
SourceWins(f, source, target) == GetSize(f[source]) > GetSize(f[target])

\* The file-system calls move_file makes, each of which may raise.
MoveFaults(f, source, target) ==
    IF dry_run THEN {"none"}
    ELSE IF f[target] = Absent THEN {"none", "move"}
    ELSE IF GetFileHash(f[source]) # GetFileHash(f[target])
            /\ SourceWins(f, source, target)
    THEN {"none", "hash", "remove", "move"}
    ELSE {"none", "hash", "remove"}

MoveFile(f, source, target, fault) ==
    IF dry_run THEN [fs |-> f, ok |-> TRUE]
    ELSE IF f[target] # Absent
    THEN IF fault = "hash" THEN [fs |-> f, ok |-> FALSE]
         ELSE IF GetFileHash(f[source]) = GetFileHash(f[target])
         THEN IF fault = "remove" THEN [fs |-> f, ok |-> FALSE]
              ELSE [fs |-> [f EXCEPT ![source] = Absent], ok |-> TRUE]
         ELSE IF SourceWins(f, source, target)
         THEN IF fault = "remove" THEN [fs |-> f, ok |-> FALSE]
              ELSE IF fault = "move"
              THEN [fs |-> [f EXCEPT ![target] = Absent], ok |-> FALSE]
              ELSE [fs |-> [f EXCEPT ![target] = f[source], ![source] = Absent],
                    ok |-> TRUE]
         ELSE IF fault = "remove" THEN [fs |-> f, ok |-> FALSE]
              ELSE [fs |-> [f EXCEPT ![source] = Absent], ok |-> TRUE]
    ELSE IF fault = "move" THEN [fs |-> f, ok |-> FALSE]
         ELSE [fs |-> [f EXCEPT ![target] = f[source], ![source] = Absent],
               ok |-> TRUE]

(* --------------------------------------------------------- process_file  *)
\* No clean-up of the clip.
UnlinkNothing(t, name) == t

\* The finally block of process_file: os.unlink(clip_path), errors ignored.
Unlink(t, name) == t \ {name}

\* The entry appended to processed_files, lines 374-380.
Entry(info, original, target) ==
    [original_path |-> original, target_path |-> target,
     artist |-> GetOr(info.artist, <<"Unknown">>),
     title |-> GetOr(info.title, <<"Unknown">>),
     album |-> GetOr(info.album, <<>>)]

\* process_file, lines 363-370 (and the finally block when it ends here).
Resolve ==
    /\ pc = "identify"
    /\ id_pc \in {"returned", "raised"}
    /\ IF id_pc = "raised"
       THEN /\ Exit("raise", "Failed")
            /\ tmp' = Unlink(tmp, clip_path)
            /\ UNCHANGED <<dirs, song_info, target_path, failed_files>>
       ELSE IF id_ret = None
       THEN /\ failed_files' = Append(failed_files, file_path)
            /\ Exit("False", "Failed")
            /\ tmp' = Unlink(tmp, clip_path)
            /\ UNCHANGED <<dirs, song_info, target_path>>
       ELSE IF FolderStructureRaises(id_ret)
       THEN /\ Exit("raise", "Failed")
            /\ tmp' = Unlink(tmp, clip_path)
            /\ UNCHANGED <<dirs, song_info, target_path, failed_files>>
       ELSE /\ song_info' = id_ret
            /\ dirs' = IF dry_run THEN dirs
                       ELSE dirs \cup WithParents(TargetFolder(id_ret))
            /\ target_path' = TargetFile(id_ret, file_path)
            /\ pc' = "move"
            /\ UNCHANGED <<tmp, failed_files, ret, outcomes>>
    /\ IdReset
    /\ UNCHANGED <<clipVars, dry_run, input_folder, fs0, fs, audio_files, idx, stats,
                   processed_files, file_hashes, clip_path, manifest, move_log>>

\* The entry appended whatever move_file reported.
EntryAppendedAlways(success) == TRUE

\* process_file, line 373: the entry is appended only if move_file
\* reported success.
EntryAppended(success) == success

\* process_file, lines 371-391.
Move ==
    /\ pc = "move"
    /\ \E fault \in MoveFaults(fs, file_path, target_path) :
         LET m == MoveFile(fs, file_path, target_path, fault) IN
         /\ fs' = m.fs
         /\ move_log' = [called |-> TRUE, source |-> file_path,
                         target |-> target_path,
                         source_before |-> fs[file_path],
                         target_before |-> fs[target_path], fault |-> fault,
                         result |-> m.ok]
         /\ processed_files' =
              IF EntryAppended(m.ok)
              THEN Append(processed_files, Entry(song_info, file_path, target_path))
              ELSE processed_files
         /\ IF m.ok THEN Exit("True", "Moved") ELSE Exit("False", "Failed")
    /\ tmp' = Unlink(tmp, clip_path)
    /\ song_info' = None
    /\ target_path' = NoPath
    /\ UNCHANGED <<clipVars, dry_run, input_folder, fs0, dirs, audio_files, idx, stats,
                   failed_files, file_hashes, clip_path, manifest, idVars>>

(* ---------------------------------------------------- organize_library   *)
\* Counted with the except clause of line 440 leaving the counters alone.
CountedDropsRaise(st, r) ==
    IF r = "True" THEN [st EXCEPT !.success = @ + 1]
    ELSE IF r = "False" THEN [st EXCEPT !.failed = @ + 1]
    ELSE st

\* organize_library, lines 433-442: the result of process_file is counted.
Counted(st, r) ==
    IF r = "True" THEN [st EXCEPT !.success = @ + 1]
    ELSE [st EXCEPT !.failed = @ + 1]

\* An exception of process_file leaving organize_library.
AfterResultRaises(r) == IF r = "raise" THEN "crashed" ELSE "loop"

\* organize_library, lines 433-446: whatever process_file did, the except
\* clause included, the loop goes on with the next file.
AfterResult(r) == "loop"

\* The end of one pass of the loop of organize_library.
Count ==
    /\ pc = "returned"
    /\ stats' = Counted(stats, ret)
    /\ ret' = "none"
    /\ clip_path' = 0
    /\ move_log' = NoMove
    /\ pc' = AfterResult(ret)
    /\ UNCHANGED <<clipVars, dry_run, input_folder, fs0, fs, dirs, tmp, audio_files, idx,
                   processed_files, failed_files, file_hashes, song_info,
                   target_path, manifest, outcomes, idVars>>

\* save_results: the manifest written, lines 395-405.
Results(st) ==
    [stats |-> st, processed_files |-> processed_files,
     failed_files |-> failed_files]

\* organize_library, lines 448-450: open() raises when the output root
\* does not exist, and the exception leaves organize_library.
Save ==
    /\ pc = "loop"
    /\ idx = Len(audio_files)
    /\ IF output_folder \in dirs
       THEN /\ manifest' = Results(stats)
            /\ pc' = "done"
       ELSE /\ pc' = "crashed"
            /\ UNCHANGED manifest
    /\ UNCHANGED <<clipVars, dry_run, input_folder, fs0, fs, dirs, tmp, audio_files, idx, stats,
                   processed_files, failed_files, file_hashes, clip_path,
                   song_info, target_path, ret, outcomes, move_log, idVars>>

Next ==
    \/ Scan
    \/ NextFile
    \/ Validate
    \/ HashCheck
    \/ CreateClip
    \/ CallIdentify
    \/ IdentifyAttempt
    \/ IdentifyExhausted
    \/ Resolve
    \/ Move
    \/ Count
    \/ Save

Spec == Init /\ [][Next]_vars

(* ---------------------------------------- identify_song called directly  *)
\* identify_song called with any retries; no run is in progress.
InitIdentify ==
    /\ dry_run = FALSE
    /\ input_folder = InDir
    /\ fs = [p \in FilePaths |-> Absent]
    /\ fs0 = fs
    /\ dirs = WithParents(InDir) \cup WithParents(OutDir)
    /\ tmp = {}
    /\ pc = "call"
    /\ audio_files = <<>>
    /\ idx = 0
    /\ stats = ProcessingStats(0)
    /\ processed_files = <<>>
    /\ failed_files = <<>>
    /\ file_hashes = <<>>
    /\ clip_path = 0
    /\ song_info = None
    /\ target_path = NoPath
    /\ ret = "none"
    /\ manifest = None
    /\ outcomes = <<>>
    /\ move_log = NoMove
    /\ id_pc = "loop"
    /\ id_retries \in 0..MaxRetries
    /\ id_attempt = 0 /\ id_requests = 0 /\ id_sleeps = <<>>
    /\ id_last = "none" /\ id_ret = None
    /\ ClipIdle

NextIdentify ==
    \/ IdentifyAttempt
    \/ IdentifyExhausted

SpecIdentify == InitIdentify /\ [][NextIdentify]_vars

(* ----------------------------------- create_random_clip, step by step   *)
Max(a, b) == IF a >= b THEN a ELSE b
Min(a, b) == IF a <= b THEN a ELSE b

\* safe_start = int(total_duration * 0.15); the product is not negative, so
\* int() is the floor, and the double product has the floor of the exact
\* one for every length up to 3000000 ms.
SafeStart(T) == (T * 15) \div 100

\* safe_end = int(total_duration * 0.85)
SafeEnd(T) == (T * 85) \div 100

\* The window may start anywhere up to the end of the safe zone.
MaxStartNoRoom(T, d) == SafeEnd(T)

\* max_start = safe_end - (duration * 1000)
MaxStart(T, d) == SafeEnd(T) - (d * 1000)

\* clip_start = max(0, middle - (duration * 500)) with middle the midpoint.
MiddleStart(T, d) == Max(0, (T \div 2) - (d * 500))

\* The values random.randint(safe_start, max_start) may return.
RandomStarts(T, d) == SafeStart(T)..MaxStart(T, d)

\* len(audio[a:b]) for an audio of T ms: pydub clamps both ends to the audio.
SliceLen(T, a, b) == Max(0, Min(b, T) - Min(a, T))

\* The lengths of the decoded audio and the duration arguments followed.
TrackLengths == (0..MaxTrackMs) \cup {100000}
Durations == {1, 10}

\* create_random_clip called on an audio of any of the lengths; no run is
\* in progress.
InitClip ==
    /\ dry_run = FALSE
    /\ input_folder = InDir
    /\ fs = [p \in FilePaths |-> Absent]
    /\ fs0 = fs
    /\ dirs = WithParents(InDir) \cup WithParents(OutDir)
    /\ tmp = {}
    /\ pc = "call"
    /\ audio_files = <<>>
    /\ idx = 0
    /\ stats = ProcessingStats(0)
    /\ processed_files = <<>>
    /\ failed_files = <<>>
    /\ file_hashes = <<>>
    /\ clip_path = 0
    /\ song_info = None
    /\ target_path = NoPath
    /\ ret = "none"
    /\ manifest = None
    /\ outcomes = <<>>
    /\ move_log = NoMove
    /\ IdIdle
    /\ clip_pc = "loaded"
    /\ total_duration \in TrackLengths
    /\ duration \in Durations
    /\ clip_start = 0 /\ clip_end = 0 /\ clip = 0

ClipFrame ==
    UNCHANGED <<dry_run, input_folder, fs, fs0, dirs, tmp, pc, audio_files, idx,
                stats, processed_files, failed_files, file_hashes, clip_path,
                song_info, target_path, ret, manifest, outcomes, move_log, idVars,
                total_duration, duration>>

\* Lines 121-123: the audio is shorter than the clip, the whole of it is used.
ClipWhole ==
    /\ clip_pc = "loaded"
    /\ total_duration < duration * 1000
    /\ clip' = total_duration
    /\ clip_pc' = "export"
    /\ UNCHANGED <<clip_start, clip_end>>
    /\ ClipFrame

\* Lines 129-133: the safe zone is too small, the middle portion is used.
ClipMiddle ==
    /\ clip_pc = "loaded"
    /\ total_duration >= duration * 1000
    /\ SafeEnd(total_duration) - SafeStart(total_duration) < duration * 1000
    /\ clip_start' = MiddleStart(total_duration, duration)
    /\ clip_pc' = "window"
    /\ UNCHANGED <<clip_end, clip>>
    /\ ClipFrame

\* Lines 134-137: a random start position within the safe zone.
ClipRandom ==
    /\ clip_pc = "loaded"
    /\ total_duration >= duration * 1000
    /\ SafeEnd(total_duration) - SafeStart(total_duration) >= duration * 1000
    /\ \E start \in RandomStarts(total_duration, duration) : clip_start' = start
    /\ clip_pc' = "window"
    /\ UNCHANGED <<clip_end, clip>>
    /\ ClipFrame

\* Lines 139-140: the end of the window and the slice.
ClipSlice ==
    /\ clip_pc = "window"
    /\ clip_end' = clip_start + (duration * 1000)
    /\ clip' = SliceLen(total_duration, clip_start, clip_end')
    /\ clip_pc' = "export"
    /\ UNCHANGED clip_start
    /\ ClipFrame

NextClip ==
    \/ ClipWhole
    \/ ClipMiddle
    \/ ClipRandom
    \/ ClipSlice

SpecClip == InitClip /\ [][NextClip]_vars

(* ================================================================ claims *)
Range(q) == {q[k] : k \in DOMAIN q}

\* The loop of organize_library has finished.
LoopFinished ==
    \/ pc = "loop" /\ idx = Len(audio_files)
    \/ pc \in {"done", "crashed"}

\* The files whose processing ended in terminal state o.
Ended(o) == {k \in DOMAIN outcomes : outcomes[k] = o}

\* C1: in organize_library, whatever process_file returns or raises,
\* success + failed <= total holds throughout the loop, success + failed is
\* the number of files counted after every pass, and success + failed =
\* total once the loop has finished.
C1_StatsInvariant ==
    pc # "start" =>
      /\ stats.success + stats.failed <= stats.total
      /\ pc = "loop" => stats.success + stats.failed = idx
      /\ LoopFinished => stats.success + stats.failed = stats.total

\* C1 witness: a finished run of two files, one counted as a success and
\* one as a failure that process_file did not report by returning False
\* after recording it (an exception or a failed move).
C1_Witness ==
    /\ pc = "done"
    /\ stats.total = 2 /\ stats.success = 1 /\ stats.failed = 1
    /\ failed_files = <<>>

\* The files scanned before the k-th that had the same bytes at the scan.
EarlierCopies(k) ==
    {j \in 1..(k - 1) : fs0[audio_files[j]] = fs0[audio_files[k]]}

\* The file just processed was removed from its path and is counted as a
\* success, not as a failure.
RemovedAsSuccess ==
    /\ fs[file_path] = Absent
    /\ ret = "True"
    /\ Counted(stats, ret).success = stats.success + 1
    /\ Counted(stats, ret).failed = stats.failed
    /\ file_path \notin Range(failed_files)

\* C2 (as claimed): in a non-simulate run, of the discovered files with
\* identical bytes the first is not removed by the duplicate check, and
\* every later one is removed from its path and counted as a success.
C2_DuplicatesRemoved ==
    ~dry_run /\ pc = "returned" =>
      IF EarlierCopies(idx) = {}
      THEN outcomes[idx] # "DuplicateRemoved"
      ELSE outcomes[idx] = "DuplicateRemoved" /\ RemovedAsSuccess

\* C2 (amended): in a non-simulate run whose input tree lies outside the
\* output tree, the first of the discovered files with identical bytes is
\* not removed by the duplicate check; a later one is removed by it when
\* it passes validation, an earlier copy's digest is in the index, and
\* neither its digest read nor its removal raises; and every file the
\* duplicate check removes is gone from its path and counted as a success.
C2_DuplicatesRemovedAmended ==
    ~dry_run /\ input_folder = InDir /\ pc = "returned" =>
      LET digest == GetFileHash(fs0[file_path]) IN
      /\ EarlierCopies(idx) = {} => outcomes[idx] # "DuplicateRemoved"
      /\ ( /\ EarlierCopies(idx) # {}
           /\ ValidateAudioFile(fs0[file_path])
           /\ digest \in DOMAIN file_hashes
           /\ file_hashes[digest] # file_path
           /\ ret # "raise" ) => outcomes[idx] = "DuplicateRemoved"
      /\ outcomes[idx] = "DuplicateRemoved" => RemovedAsSuccess

\* C2 witness: the second of two identical input files has just been
\* removed by the duplicate check.
C2_Witness ==
    /\ ~dry_run /\ input_folder = InDir /\ pc = "returned" /\ idx = 2
    /\ EarlierCopies(2) = {1}
    /\ outcomes[2] = "DuplicateRemoved"
    /\ fs[file_path] = Absent

\* C3 (as claimed): at run completion stats.duplicates is the number of
\* files whose processing ended in DuplicateRemoved.
C3_DuplicatesCounted ==
    pc = "done" => stats.duplicates = Cardinality(Ended("DuplicateRemoved"))

\* C4 (as claimed): at run completion failed_files lists exactly the files
\* counted as failed, so its length is stats.failed.
C4_FailedFilesMatch ==
    pc = "done" =>
      /\ Len(failed_files) = stats.failed
      /\ Range(failed_files) = {audio_files[k] : k \in Ended("Failed")}

\* C5 (as claimed): every run of organize_library that has processed its
\* files (at least one) ends with the manifest written under the output
\* root, in normal and in simulate-only mode.
C5_ManifestWritten ==
    LoopFinished /\ pc # "loop" /\ idx >= 1 => manifest = Results(stats)

C7_IdentifyBounded ==
    /\ [](/\ id_requests <= id_retries
          /\ id_attempt <= id_retries
          /\ id_pc # "raised"
          /\ id_pc = "returned" /\ id_last # "200_result" => id_ret = None
          /\ id_pc = "loop" => ENABLED NextIdentify)
    /\ [][id_pc = "loop" =>
            \/ id_pc' = "returned"
            \/ id_pc' = "loop" /\ id_attempt' = id_attempt + 1]_idVars

\* C7 witness: identify_song(retries = 3) has returned None after three
\* requests, the last of which timed out.
C7_Witness ==
    /\ id_pc = "returned" /\ id_retries = 3 /\ id_requests = 3
    /\ id_last = "timeout" /\ id_ret = None

\* The attempt outcomes that are neither a success with a result nor
\* rate-limited nor a timeout.
TerminalFailures ==
    {"200_noresult", "900", "700", "500", "400", "300", "other_status",
     "open_error", "error"}

\* C8: identify_song posts a further request only when the attempt before
\* ended rate-limited or in a timeout; after any other failure it has
\* returned None with no further request.
C8_RetryOnlyTransient ==
    /\ [](id_last \in TerminalFailures => id_pc = "returned" /\ id_ret = None)
    /\ [][id_requests' > id_requests => id_last \in {"none", "901", "timeout"}]_idVars

\* C8 witness: a rate-limited attempt was followed by a second request,
\* which was rejected for invalid credentials, and None was returned.
C8_Witness ==
    /\ id_pc = "returned" /\ id_requests = 2 /\ id_sleeps = <<1>>
    /\ id_last = "900" /\ id_ret = None

\* The state a successful move_file onto an existing target leaves, for
\* source s (bytes sb before the call) and target t (bytes tb before).
ConflictResolved(s, t, sb, tb, aliased) ==
    IF GetFileHash(sb) = GetFileHash(tb)
    THEN fs[s] = Absent /\ (aliased \/ fs[t] = tb)
    ELSE IF GetSize(sb) > GetSize(tb)
    THEN fs[t] = sb /\ fs[s] = Absent
    ELSE fs[t] = tb /\ fs[s] = Absent

\* move_file has just been called, not in simulate-only mode, with a
\* target that existed.
MovedOntoExisting ==
    /\ move_log.called /\ pc = "returned"
    /\ ~dry_run
    /\ move_log.target_before # Absent

\* C9 (as claimed): in non-simulate mode move_file on an existing target
\* always reports success and leaves: equal digests, the source deleted
\* and the target unchanged; different digests and a strictly larger
\* source, the source's bytes at the target and no source; otherwise the
\* target unchanged and the source deleted.
C9_ConflictAlwaysSucceeds ==
    MovedOntoExisting =>
      /\ move_log.result
      /\ ConflictResolved(move_log.source, move_log.target,
                          move_log.source_before, move_log.target_before, FALSE)

\* C9 (amended): in non-simulate mode move_file on an existing target
\* reports success unless one of its file-system calls raises, and when it
\* reports success it leaves the state of the claim, except that a target
\* which is the source's own path is deleted with the source.
C9_ConflictResolution ==
    MovedOntoExisting =>
      /\ move_log.fault = "none" => move_log.result
      /\ move_log.result =>
           ConflictResolved(move_log.source, move_log.target,
                            move_log.source_before, move_log.target_before,
                            move_log.source = move_log.target)

\* C9 witness: a strictly larger source has replaced a different target.
C9_Witness ==
    /\ MovedOntoExisting /\ move_log.result
    /\ move_log.source # move_log.target
    /\ GetSize(move_log.source_before) > GetSize(move_log.target_before)
    /\ fs[move_log.target] = move_log.source_before
    /\ fs[move_log.source] = Absent

\* C10: in simulate-only mode the files of the input tree and of the
\* organized tree stay what they were before the run, no directory is
\* created, and move_file reports success.
C10_SimulateFrame ==
    /\ [](dry_run => fs = fs0 /\ (move_log.called => move_log.result))
    /\ [][dry_run => dirs' = dirs]_vars

\* C10 witness: a simulate-only run has finished after one file went
\* through move_file and an identical one was detected as a duplicate.
C10_Witness ==
    /\ dry_run /\ pc = "done"
    /\ outcomes = <<"Moved", "DuplicateRemoved">>

\* The original paths of the entries of processed_files.
Originals == {processed_files[k].original_path : k \in DOMAIN processed_files}

\* C11: processed_files holds an entry only for a file whose move_file
\* call reported success: every entry belongs to a file that ended Moved
\* (or is the file whose successful move has just been logged), no file
\* that ended DuplicateRemoved or Failed has one, no path is in both
\* processed_files and failed_files, and at the end of each pass of the
\* loop there are no more entries than stats.success.
C11_EntriesOnlyForMoved ==
    /\ \A k \in DOMAIN outcomes :
         outcomes[k] \in {"DuplicateRemoved", "Failed"} =>
           audio_files[k] \notin Originals
    /\ \A p \in Originals : \E k \in Ended("Moved") : audio_files[k] = p
    /\ Originals \cap Range(failed_files) = {}
    /\ Len(processed_files) = Cardinality(Originals)
    /\ pc = "loop" => Len(processed_files) <= stats.success

\* C11 witness: after one file was moved and recorded, the move_file call
\* of the second file has just reported failure and left no entry.
C11_Witness ==
    /\ pc = "returned" /\ idx = 2
    /\ move_log.called /\ ~move_log.result
    /\ outcomes = <<"Moved", "Failed">>
    /\ Len(processed_files) = 1

\* C12 (as claimed): when create_random_clip returned None and
\* process_file has returned Failed for the file, no temporary file made
\* by that extraction is left.
C12_NoArtifactLeft ==
    pc = "returned" /\ clip_path = 0 /\ outcomes[idx] = "Failed" =>
      idx \notin tmp

\* C13 (as claimed): when the last permitted attempt of identify_song ends
\* rate-limited or in a timeout, None is returned without a sleep after
\* that attempt: only the retries - 1 earlier attempts were followed by one.
C13_NoSleepAfterLastAttempt ==
    id_pc = "returned" /\ id_last \in {"901", "timeout"} =>
      Len(id_sleeps) = id_retries - 1

\* C14: when identify_song returns after a success with a result, every
\* earlier attempt was rate-limited or timed out and was followed by a
\* sleep, the value returned is a result payload, and the sleep after the
\* attempt with 0-based index a is 2^a seconds.
C14_BackoffThenResult ==
    /\ \A k \in DOMAIN id_sleeps : id_sleeps[k] = 2 ^ (k - 1)
    /\ id_pc = "returned" /\ id_last = "200_result" =>
         /\ id_ret \in SongInfos
         /\ Len(id_sleeps) = id_requests - 1
         /\ id_attempt = id_requests - 1

\* C14 witness: two attempts were rate-limited or timed out, the third
\* succeeded, and the sleeps were 1 and 2 seconds.
C14_Witness ==
    /\ id_pc = "returned" /\ id_last = "200_result"
    /\ id_requests = 3 /\ id_sleeps = <<1, 2>>
    /\ id_ret \in SongInfos

\* C15 (as claimed): every digest of the index maps to a path at which a
\* file with that digest exists now.
C15_IndexPathsSurvive ==
    \A d \in DOMAIN file_hashes :
      /\ fs[file_hashes[d]] # Absent
      /\ GetFileHash(fs[file_hashes[d]]) = d

\* process_file is between the digest check and its exit.
PastDigestCheck == pc \in {"clip", "identify", "move"}

\* C16: the steps of a file come in the order validate, digest check,
\* record digest, extract clip, identify, move: a clip is extracted and
\* the service is contacted only for a file with at least 10 s of
\* decodable audio whose digest this file itself recorded, and a digest is
\* recorded only at the digest check of such a file, when it was not in
\* the index.
C16_PipelineOrder ==
    /\ [](PastDigestCheck =>
            /\ fs[file_path] # Absent
            /\ DecodedMs(fs[file_path]) >= 10000
            /\ GetFileHash(fs[file_path]) \in DOMAIN file_hashes
            /\ file_hashes[GetFileHash(fs[file_path])] = file_path)
    /\ [](pc \notin {"identify", "move", "returned"} => clip_path = 0)
    /\ [][/\ pc' = "hash" => pc \in {"validate", "hash"}
          /\ pc' = "clip" => pc \in {"hash", "clip"}
          /\ pc' = "identify" => pc \in {"clip", "identify"}
          /\ pc' = "move" => pc \in {"identify", "move"}
          /\ tmp' # tmp /\ tmp \subseteq tmp' => pc = "clip"
          /\ id_requests' > id_requests => pc = "identify" /\ clip_path # 0
          /\ file_hashes' # file_hashes =>
               /\ pc = "hash" /\ pc' = "clip"
               /\ DecodedMs(fs[file_path]) >= 10000
               /\ GetFileHash(fs[file_path]) \notin DOMAIN file_hashes
               /\ file_hashes' =
                    file_hashes @@ (GetFileHash(fs[file_path]) :> file_path)]_vars

\* C16 witness: after a first file failed validation, the service has
\* been contacted once for the second file.
C16_Witness ==
    /\ pc = "identify" /\ idx = 2 /\ id_requests = 1
    /\ outcomes = <<"Failed">> /\ failed_files = <<audio_files[1]>>
    /\ DOMAIN file_hashes = {GetFileHash(fs[file_path])}

\* process_file is running for the file taken last.
InProcessFile == pc \in {"validate", "hash", "clip", "identify", "move"}

\* C17: every scanned file is processed exactly once, in scan order, and
\* the run goes on to the end of the loop: the files that have ended are
\* the first idx (or idx - 1) of the list, files are taken one by one in
\* list order, whatever process_file returned or raised the loop can and
\* does go on with the next file, and once the loop has finished every
\* scanned file has ended.
C17_EveryFileProcessed ==
    /\ [](/\ idx <= Len(audio_files)
          /\ Len(outcomes) = IF InProcessFile THEN idx - 1 ELSE idx
          /\ LoopFinished => Len(outcomes) = Len(audio_files)
          /\ pc = "returned" => ENABLED Count
          /\ pc = "loop" => ENABLED (NextFile \/ Save))
    /\ [][/\ pc = "returned" => pc' = "loop" /\ idx' = idx
          /\ idx' # idx => pc = "loop" /\ pc' = "validate" /\ idx' = idx + 1
          /\ pc # "start" => audio_files' = audio_files
          /\ outcomes' # outcomes =>
               /\ InProcessFile /\ pc' = "returned"
               /\ Len(outcomes') = Len(outcomes) + 1]_vars

\* C17 witness: the run is complete, the first file ended with an
\* exception or a failed move, and the second file was moved after it.
C17_Witness ==
    /\ pc = "done"
    /\ outcomes = <<"Failed", "Moved">>
    /\ failed_files = <<>>

\* C19 (as claimed): outside simulate mode, after move_file has returned
\* success a file exists at the target path, also when the target path is
\* the source path itself.
C19_TargetExistsAfterMove ==
    /\ ~dry_run
    /\ pc = "returned"
    /\ move_log.called
    /\ move_log.result
    => fs[move_log.target] # Absent

\* C20 (as claimed): when the processing of a file ends in Failed after
\* move_file reported failure, the file is still at its original path as
\* it was and a file that was at the target path is still there.
C20_FailedMoveRemovesNothing ==
    /\ pc = "returned"
    /\ outcomes[idx] = "Failed"
    /\ move_log.called
    => /\ fs[move_log.source] = move_log.source_before
       /\ move_log.target_before # Absent => fs[move_log.target] # Absent

\* C18: for a track of T ms and a clip of D ms with T >= D, the window
\* chosen by create_random_clip is exactly D ms long and lies within
\* [0, T], the clip cut from it is D ms long, and when the safe zone
\* [floor(0.15 T), floor(0.85 T)] is at least D wide the window lies
\* within it: for T = 100000 and D = 10000, within [15000, 85000].
C18_ClipWindow ==
    LET T == total_duration
        D == duration * 1000
        safeStart == (15 * T) \div 100
        safeEnd == (85 * T) \div 100
    IN  clip_pc = "export" /\ T >= D =>
          /\ clip_end - clip_start = D
          /\ 0 <= clip_start /\ clip_end <= T
          /\ clip = D
          /\ safeEnd - safeStart >= D =>
               safeStart <= clip_start /\ clip_start + D <= safeEnd
          /\ T = 100000 /\ D = 10000 =>
               15000 <= clip_start /\ clip_end <= 85000

\* C18 witness: on a track of 100000 ms the window of a 10 s clip starts
\* at the latest position, 75000, and ends at 85000.
C18_Witness ==
    /\ clip_pc = "export"
    /\ total_duration = 100000 /\ duration = 10
    /\ clip_start = 75000 /\ clip_end = 85000 /\ clip = 10000

\* C21 (as claimed): in a non-simulate run, when the duplicate check
\* removes a file because its digest is in the index, a file with the same
\* bytes still exists at some path of the input or output tree at that
\* moment, whatever move_file did to the first-seen copy.
C21_CopySurvivesDuplicateCheck ==
    [][( /\ ~dry_run
         /\ pc = "hash" /\ pc' = "returned"
         /\ outcomes' = Append(outcomes, "DuplicateRemoved") )
       => \E p \in FilePaths : fs'[p] = fs[file_path]]_vars

====
